---------------------------- MODULE Spec2Model ----------------------------
(***************************************************************************)
(* A model of src/auto.py: GitScriptSync, the one-way sync of a local      *)
(* scripts directory into <repo>/<user>/<app folder>/ followed by          *)
(* git status / add / commit / push.                                       *)
(*                                                                         *)
(* File and directory names are sequences of characters, so that           *)
(* str.startswith and str.endswith are computed and not assumed.  A path   *)
(* below an app folder is a sequence of names; a folder is modelled by the *)
(* set of relative paths of the regular files below it.                    *)
(***************************************************************************)
EXTENDS Naturals, Sequences, FiniteSets, TLC

\* ------------------------------------------------------------------ bounds
MaxRuns == 2        \* invocations of sync_to_git in one behaviour
MaxFaults == 1      \* failing commands, raised exceptions and kills in one behaviour

\* ------------------------------------------------------------------- names
A == <<"a">>                  \* an app folder
B == <<"b">>                  \* another app folder
H == <<".", "h">>             \* a hidden directory of ~/scripts
R == <<"r">>                  \* a regular file directly in ~/scripts
X == <<"x">>
XT == <<"x", ".", "t">>       \* "x.t"
XTU == <<"x", ".", "T">>      \* "x.T"
SUB == <<"s">>                \* a subdirectory inside an app folder
DotT == <<".", "t">>          \* the suffix ".t"

P1 == <<X>>                   \* x
P2 == <<SUB, XT>>             \* s/x.t
P3 == <<XTU>>                 \* x.T

USER == "u"                   \* os.getenv('USER')
OTHERUSER == "v"              \* another operator's namespace in the repository

Branches == {"main", "dev"}

\* the files the operator may keep below ~/scripts, as <<top-level dir, path>>
SourceFiles == {<<A, P1>>, <<A, P2>>, <<B, P3>>, <<H, P1>>}

\* ----------------------------------------------------------- str methods
\* str.startswith(prefix)
startswith(name, prefix) ==
    /\ Len(prefix) <= Len(name)
    /\ SubSeq(name, 1, Len(prefix)) = prefix

\* str.endswith(suffix)
endswith(name, suffix) ==
    /\ Len(suffix) <= Len(name)
    /\ SubSeq(name, Len(name) - Len(suffix) + 1, Len(name)) = suffix

\* Path.name: the last component of a path
PathName(path) == path[Len(path)]

\* str.lower(), on the characters names are made of here
Lower(name) == [i \in 1..Len(name) |-> IF name[i] = "T" THEN "t" ELSE name[i]]

\* mutant of IsExcluded: the suffix test ignores case
IsExcludedIgnoringCase(path, excluded_extensions) ==
    \E ext \in excluded_extensions :
        endswith(Lower(PathName(path)), Lower(ext))

\* any(file_path.name.endswith(ext) for ext in excluded_extensions)
IsExcluded(path, excluded_extensions) ==
    \E ext \in excluded_extensions : endswith(PathName(path), ext)

\* mutant of IsAppFolder: hidden directories are not skipped
IsAppFolderHiddenToo(src, item) == item \in src.dirs

\* item.is_dir() and not item.name.startswith('.')
IsAppFolder(src, item) ==
    /\ item \in src.dirs
    /\ ~startswith(item, <<".">>)

\* ------------------------------------------------------------------- state
VARIABLES
    config,         \* self.config: [branch, exclude_extensions]
    scripts,        \* ~/scripts: [exists, dirs, files, tree]
    repoExists,     \* self.repo_path.exists()
    work,           \* the working tree at repo_path: [ns, apps, files]
    git,            \* the local repository: [head, index, unpushed, behind]
    remote,         \* origin: branch -> tree
    pc,             \* where sync_to_git stands
    ops,            \* the git commands this run has issued, in order
    todo,           \* app folders of scripts_path.iterdir() not yet visited
    copied_files,   \* the local copied_files of copy_scripts_to_repo
    copy_ret,       \* where copy_scripts_to_repo returned, and what
    ret,            \* where sync_to_git returned, and what
    runs,           \* runs started so far
    edited,         \* ~/scripts was changed since the last run started
    faults,         \* failures the environment has caused so far
    done_apps,      \* app folders whose pass of the loop reached its last line
    raised_apps,    \* app folders whose shutil.copytree raised in this run
    pre,            \* the working tree as copy_scripts_to_repo found it
    run0            \* what was known when this run started

vars == <<config, scripts, repoExists, work, git, remote, pc, ops, todo,
          copied_files, copy_ret, ret, runs, edited, faults, done_apps,
          raised_apps, pre, run0>>

NoRet == [at |-> "none", value |-> FALSE]
NoWork == [ns |-> {}, apps |-> {}, files |-> {}]

\* the working tree git writes for a tree of files
Checkout(tree) ==
    [ns |-> {f[1] : f \in tree},
     apps |-> {<<f[1], f[2]>> : f \in tree},
     files |-> tree]

\* what another operator pushed to origin/main after this clone was made
LateFile == <<OTHERUSER, B, P1>>

\* the relative paths of the regular files of one top-level directory of ~/scripts
SrcFilesOf(src, item) == {f[2] : f \in {g \in src.tree : g[1] = item}}

\* the relative paths of the regular files of repo_path/user/app
DstFilesOf(w, user, app) ==
    {f[3] : f \in {g \in w.files : g[1] = user /\ g[2] = app}}

\* files `paths` of repo_path/user/app are removed
Unlink(w, user, app, paths) ==
    [ns |-> w.ns,
     apps |-> w.apps,
     files |-> w.files \ {<<user, app, p>> : p \in paths}]

\* mutant of RmTree: the old copy is left in place
RmTreeKeeps(w, user, app) == w

\* mutant of RmTree: the directory is forgotten, its files stay
RmTreeLeavesFiles(w, user, app) ==
    [ns |-> w.ns, apps |-> w.apps \ {<<user, app>>}, files |-> w.files]

\* shutil.rmtree(target_app_folder)
RmTree(w, user, app) ==
    [ns |-> w.ns,
     apps |-> w.apps \ {<<user, app>>},
     files |-> {f \in w.files : ~(f[1] = user /\ f[2] = app)}]

\* mutant of CopyTree: the app folder is written below every namespace
CopyTreeEverywhere(w, user, app, paths) ==
    [ns |-> w.ns,
     apps |-> w.apps \cup {<<u, app>> : u \in w.ns},
     files |-> w.files \cup {<<u, app, p>> : u \in w.ns, p \in paths}]

\* shutil.copytree(item, target_app_folder), as far as it wrote `paths`
CopyTree(w, user, app, paths) ==
    [ns |-> w.ns,
     apps |-> w.apps \cup {<<user, app>>},
     files |-> w.files \cup {<<user, app, p>> : p \in paths}]

\* mutant of StatusOutput: the output is never taken to be empty
StatusOutputNeverEmpty(w, g) == TRUE

\* git status --porcelain prints something: staged, unstaged or untracked
\* changes (an empty directory is nothing to git)
StatusOutput(w, g) == w.files # g.index \/ g.index # g.head

\* ------------------------------------------------------------------ Init
Configs ==
    {[branch |-> "main", exclude_extensions |-> {DotT}],
     [branch |-> "dev", exclude_extensions |-> {DotT}]}

ScriptsMissing == [exists |-> FALSE, dirs |-> {}, files |-> {}, tree |-> {}]

\* ~/scripts holding the app folders `d` with the files `t`, besides a
\* hidden directory and a regular file
ScriptsWith(d, t) ==
    [exists |-> TRUE, dirs |-> d \cup {H}, files |-> {R},
     tree |-> t \cup {<<H, P1>>}]

ScriptsStates ==
    {ScriptsMissing} \cup
    {ScriptsWith(dt[1], dt[2]) :
        dt \in {x \in (SUBSET {A, B}) \X (SUBSET (SourceFiles \ {<<H, P1>>})) :
                    /\ \A f \in x[2] : f[1] \in x[1]
                    /\ B \in x[1] => <<B, P3>> \in x[2]}}

\* what origin holds of this user's namespace before the first run
RemoteSeeds ==
    {{<<OTHERUSER, A, P1>>} \cup s :
        s \in {{}, {<<USER, A, P1>>, <<USER, B, P3>>}}}

Init ==
    /\ config \in Configs
    /\ scripts \in ScriptsStates
    /\ \E seed \in RemoteSeeds :
        \/ /\ repoExists = FALSE
           /\ remote = [b \in Branches |-> seed]
           /\ work = NoWork
           /\ git = [head |-> {}, index |-> {}, unpushed |-> FALSE, behind |-> FALSE]
        \/ \E late \in BOOLEAN :
           /\ repoExists = TRUE
           /\ remote = [b \in Branches |->
                           IF b = "main" /\ late THEN seed \cup {LateFile} ELSE seed]
           /\ work = Checkout(seed)
           /\ git = [head |-> seed, index |-> seed, unpushed |-> FALSE,
                     behind |-> late]
    /\ pc = "idle"
    /\ ops = <<>>
    /\ todo = {}
    /\ copied_files = 0
    /\ copy_ret = NoRet
    /\ ret = NoRet
    /\ runs = 0
    /\ edited = FALSE
    /\ faults = 0
    /\ done_apps = {}
    /\ raised_apps = {}
    /\ pre = NoWork
    /\ run0 = [faults |-> 0, prev |-> "none", prev_clean |-> FALSE,
               changed |-> FALSE]

\* --------------------------------------------------------------- actions
Return(at, value) == [at |-> at, value |-> value]

\* a command fails, a call raises or the process is killed: the environment's doing
Fault == faults < MaxFaults /\ faults' = faults + 1
NoFault == faults' = faults

\* the ways the run before could end that are told apart once it is over
Remembered == {"none", "push_failed", "published", "no_changes", "killed"}

\* main() calls syncer.sync_to_git(): a run starts, with fresh locals
StartRun ==
    /\ pc \in {"idle", "done"}
    /\ runs < MaxRuns
    /\ runs' = runs + 1
    /\ edited' = FALSE
    /\ todo' = {}
    /\ copied_files' = 0
    /\ copy_ret' = NoRet
    /\ done_apps' = {}
    /\ raised_apps' = {}
    /\ pre' = NoWork
    /\ run0' = [faults |-> faults,
                prev |-> IF ret.at \in Remembered THEN ret.at ELSE "other",
                prev_clean |-> (faults = run0.faults), changed |-> edited]

\* what a successful "git pull origin main" does to the local repository:
\* origin/main is merged when it holds commits this clone lacks
Pulled(w, g) ==
    IF g.behind
    THEN [work |-> [ns |-> w.ns \cup {LateFile[1]},
                    apps |-> w.apps \cup {<<LateFile[1], LateFile[2]>>},
                    files |-> w.files \cup {LateFile}],
          git |-> [head |-> g.head \cup {LateFile},
                   index |-> g.index \cup {LateFile},
                   unpushed |-> g.unpushed,
                   behind |-> FALSE]]
    ELSE [work |-> w, git |-> g]

\* git refuses to merge two diverged histories over staged changes
MergeRefused(g) == g.behind /\ g.unpushed /\ g.index # g.head

\* mutant of SetupReturn: a failed clone is a warning too
SetupReturnAlwaysTrue(existed, success) == TRUE

\* mutant of SetupReturn: a failed pull is fatal too
SetupReturnSuccess(existed, success) == success

\* what setup_git_repo returns: True after a pull, whatever the pull did,
\* and the clone's success after a clone
SetupReturn(existed, success) == IF existed THEN TRUE ELSE success

\* sync_to_git, step 1: if not self.setup_git_repo(): return False
AfterSetup(ok) ==
    IF ok
    THEN /\ pc' = "copy"
         /\ ret' = NoRet
    ELSE /\ pc' = "done"
         /\ ret' = Return("setup_failed", FALSE)

\* a run starts; setup_git_repo, repo_path exists: git pull origin main
SetupPull ==
    /\ StartRun
    /\ repoExists
    /\ ops' = <<<<"pull", "main">>>>
    /\ \/ \* the pull succeeded
          /\ ~MergeRefused(git)
          /\ work' = Pulled(work, git).work
          /\ git' = Pulled(work, git).git
          /\ NoFault
          /\ AfterSetup(SetupReturn(TRUE, TRUE))
       \/ \* the pull failed: git refused the merge, or origin was out of reach
          /\ UNCHANGED <<work, git>>
          /\ IF MergeRefused(git) THEN NoFault ELSE Fault
          /\ AfterSetup(SetupReturn(TRUE, FALSE))
    /\ UNCHANGED <<config, scripts, repoExists, remote>>

\* a run starts; setup_git_repo, repo_path absent: git clone <url> <repo_path>
SetupClone ==
    /\ StartRun
    /\ ~repoExists
    /\ ops' = <<<<"clone", "main">>>>
    /\ \/ \* the clone succeeded
          /\ repoExists' = TRUE
          /\ work' = Checkout(remote["main"])
          /\ git' = [head |-> remote["main"], index |-> remote["main"],
                     unpushed |-> FALSE, behind |-> FALSE]
          /\ NoFault
          /\ AfterSetup(SetupReturn(FALSE, TRUE))
       \/ \* the clone failed
          /\ UNCHANGED <<repoExists, work, git>>
          /\ Fault
          /\ AfterSetup(SetupReturn(FALSE, FALSE))
    /\ UNCHANGED <<config, scripts, remote>>

\* mutant of MkUserDir: the user's folder is made anew, empty
MkUserDirAnew(w, user) ==
    [ns |-> w.ns \cup {user},
     apps |-> {a \in w.apps : a[1] # user},
     files |-> {f \in w.files : f[1] # user}]

\* user_folder_in_repo.mkdir(exist_ok=True)
MkUserDir(w, user) == [ns |-> w.ns \cup {user}, apps |-> w.apps, files |-> w.files]

\* mutant of UserFolderMade: the mkdir comes before the existence check
UserFolderMadeFirst(exists, w, user) == MkUserDir(w, user)

\* copy_scripts_to_repo returns before the mkdir when scripts_path is missing
UserFolderMade(exists, w, user) == IF exists THEN MkUserDir(w, user) ELSE w

\* sync_to_git, step 2: if not self.copy_scripts_to_repo(): return True
AfterCopy(ok) ==
    IF ok
    THEN /\ pc' = "status"
         /\ ret' = ret
    ELSE /\ pc' = "done"
         /\ ret' = Return("no_scripts", TRUE)

\* copy_scripts_to_repo up to the loop: the existence check, then the mkdir;
\* the loop's body does nothing for an entry that fails its test, so the
\* entries left to visit are those that pass it
CopyBegin ==
    /\ pc = "copy"
    /\ pre' = work
    /\ work' = UserFolderMade(scripts.exists, work, USER)
    /\ IF ~scripts.exists
       THEN /\ copy_ret' = Return("scripts_missing", FALSE)
            /\ AfterCopy(FALSE)
            /\ UNCHANGED todo
       ELSE /\ todo' = {item \in scripts.dirs \cup scripts.files :
                            IsAppFolder(scripts, item)}
            /\ pc' = "loop"
            /\ UNCHANGED <<copy_ret, ret>>
    /\ UNCHANGED <<config, scripts, repoExists, git, remote, ops,
                   copied_files, runs, edited, faults, done_apps, raised_apps, run0>>

\* mutant of FilterDone: excluded files are counted before they are removed
FilterDoneCountsAll(paths, exts) ==
    [left |-> {p \in paths : ~IsExcluded(p, exts)}, counted |-> Cardinality(paths)]

\* the walk over target_app_folder.rglob('*') ran to its end: the files
\* left, and how many were counted
FilterDone(paths, exts) ==
    LET kept == {p \in paths : ~IsExcluded(p, exts)}
    IN  [left |-> kept, counted |-> Cardinality(kept)]

\* the walk raised at the unlink of an excluded file, having visited some of
\* the other files: visited excluded files are gone, the others were counted
FilterRaised(paths, exts) ==
    {[left |-> paths \ {v \in visited : IsExcluded(v, exts)},
      counted |-> Cardinality({v \in visited : ~IsExcluded(v, exts)})] :
        visited \in UNION {SUBSET (paths \ {e}) :
                              e \in {q \in paths : IsExcluded(q, exts)}}}

\* one pass of the loop over scripts_path.iterdir()
CopyItem(item) ==
    /\ pc = "loop"
    /\ item \in todo
    /\ todo' = todo \ {item}
    /\ LET src == SrcFilesOf(scripts, item)
           exts == config.exclude_extensions
           cleared == RmTree(work, USER, item)
           copied == CopyTree(cleared, USER, item, src)
       IN  \/ \* shutil.rmtree raised, outside the try: the run dies
              /\ <<USER, item>> \in work.apps
              /\ \E gone \in SUBSET DstFilesOf(work, USER, item) :
                    work' = Unlink(work, USER, item, gone)
              /\ pc' = "done"
              /\ ret' = Return("raised", FALSE)
              /\ UNCHANGED <<copied_files, done_apps, raised_apps>>
              /\ Fault
           \/ \* shutil.copytree raised: nothing, or a part, was copied
              /\ \/ work' = cleared
                 \/ \E part \in SUBSET src :
                        work' = CopyTree(cleared, USER, item, part)
              /\ raised_apps' = raised_apps \cup {item}
              /\ UNCHANGED <<copied_files, done_apps, pc, ret>>
              /\ Fault
           \/ \* copied; the walk that removes excluded files raised
              /\ \E r \in FilterRaised(src, exts) :
                    /\ work' = Unlink(copied, USER, item, src \ r.left)
                    /\ copied_files' = copied_files + r.counted
              /\ UNCHANGED <<done_apps, raised_apps, pc, ret>>
              /\ Fault
           \/ \* copied and filtered
              /\ LET r == FilterDone(src, exts)
                 IN  /\ work' = Unlink(copied, USER, item, src \ r.left)
                     /\ copied_files' = copied_files + r.counted
              /\ done_apps' = done_apps \cup {item}
              /\ UNCHANGED <<raised_apps, pc, ret>>
              /\ NoFault
    /\ UNCHANGED <<config, scripts, repoExists, git, remote, ops, copy_ret,
                   runs, edited, pre, run0>>

\* mutant of CopyResult: a count of 0 is not told apart
CopyResultNonNegative(n) == n >= 0

\* return copied_files > 0
CopyResult(n) == n > 0

\* the loop is over: copy_scripts_to_repo returns, and sync_to_git tests
\* what it returned
CopyEnd ==
    /\ pc = "loop"
    /\ todo = {}
    /\ copy_ret' = Return("counted", CopyResult(copied_files))
    /\ AfterCopy(CopyResult(copied_files))
    /\ UNCHANGED <<config, scripts, repoExists, work, git, remote, ops, todo,
                   copied_files, runs, edited, faults, done_apps, raised_apps, pre, run0>>

\* mutant of Following: the push follows the add
FollowingSkipsCommit(cmd) ==
    CASE cmd = "status" -> "add"
      [] cmd = "add" -> "push"
      [] cmd = "commit" -> "push"

\* commit_and_push_changes: the command that follows a command that succeeded
Following(cmd) ==
    CASE cmd = "status" -> "add"
      [] cmd = "add" -> "commit"
      [] cmd = "commit" -> "push"

\* commit_and_push_changes: git status --porcelain
GitStatus ==
    /\ pc = "status"
    /\ ops' = Append(ops, <<"status", "">>)
    /\ \/ /\ pc' = "done"
          /\ ret' = Return("status_failed", FALSE)
          /\ Fault
       \/ /\ ~StatusOutput(work, git)
          /\ pc' = "done"
          /\ ret' = Return("no_changes", TRUE)
          /\ NoFault
       \/ /\ StatusOutput(work, git)
          /\ pc' = Following("status")
          /\ UNCHANGED ret
          /\ NoFault
    /\ UNCHANGED <<config, scripts, repoExists, work, git, remote, todo,
                   copied_files, copy_ret, runs, edited, done_apps, raised_apps, pre, run0>>

\* commit_and_push_changes: git add .
GitAdd ==
    /\ pc = "add"
    /\ ops' = Append(ops, <<"add", "">>)
    /\ \/ /\ pc' = "done"
          /\ ret' = Return("add_failed", FALSE)
          /\ UNCHANGED git
          /\ Fault
       \/ /\ git' = [git EXCEPT !.index = work.files]
          /\ pc' = Following("add")
          /\ UNCHANGED ret
          /\ NoFault
    /\ UNCHANGED <<config, scripts, repoExists, work, remote, todo,
                   copied_files, copy_ret, runs, edited, done_apps, raised_apps, pre, run0>>

\* commit_and_push_changes: git commit -m ...; git exits 1 when nothing is
\* staged, and any non-zero exit returns False
GitCommit ==
    /\ pc = "commit"
    /\ ops' = Append(ops, <<"commit", "">>)
    /\ \/ \* nothing to commit
          /\ git.index = git.head
          /\ pc' = "done"
          /\ ret' = Return("commit_failed", FALSE)
          /\ UNCHANGED git
          /\ NoFault
       \/ \* the commit failed for another reason
          /\ git.index # git.head
          /\ pc' = "done"
          /\ ret' = Return("commit_failed", FALSE)
          /\ UNCHANGED git
          /\ Fault
       \/ /\ git.index # git.head
          /\ git' = [git EXCEPT !.head = git.index, !.unpushed = TRUE]
          /\ pc' = Following("commit")
          /\ UNCHANGED ret
          /\ NoFault
    /\ UNCHANGED <<config, scripts, repoExists, work, remote, todo,
                   copied_files, copy_ret, runs, edited, done_apps, raised_apps, pre, run0>>

\* commit_and_push_changes: git push origin <branch>; origin rejects a push
\* to a branch holding commits this clone lacks
GitPush ==
    /\ pc = "push"
    /\ ops' = Append(ops, <<"push", config.branch>>)
    /\ \/ \* rejected: origin's branch is ahead
          /\ git.behind /\ config.branch = "main"
          /\ pc' = "done"
          /\ ret' = Return("push_failed", FALSE)
          /\ UNCHANGED <<git, remote>>
          /\ NoFault
       \/ \* the push failed for another reason
          /\ ~(git.behind /\ config.branch = "main")
          /\ pc' = "done"
          /\ ret' = Return("push_failed", FALSE)
          /\ UNCHANGED <<git, remote>>
          /\ Fault
       \/ /\ ~(git.behind /\ config.branch = "main")
          /\ remote' = [remote EXCEPT ![config.branch] = git.head]
          /\ git' = [git EXCEPT !.unpushed = FALSE]
          /\ pc' = "done"
          /\ ret' = Return("published", TRUE)
          /\ NoFault
    /\ UNCHANGED <<config, scripts, repoExists, work, todo, copied_files,
                   copy_ret, runs, edited, done_apps, raised_apps, pre, run0>>

\* the operator kills the process in the middle of a run: its locals are gone
Interrupt ==
    /\ pc \notin {"idle", "done"}
    /\ Fault
    /\ pc' = "done"
    /\ ret' = Return("killed", FALSE)
    /\ ops' = <<>>
    /\ todo' = {}
    /\ copied_files' = 0
    /\ copy_ret' = NoRet
    /\ done_apps' = {}
    /\ raised_apps' = {}
    /\ pre' = NoWork
    /\ UNCHANGED <<config, scripts, repoExists, work, git, remote, runs, edited,
                   run0>>

\* one change the operator makes to ~/scripts between two runs: a file
\* created or deleted in an app folder, an app folder created or deleted
\* with its files, or the directory itself created or deleted
ScriptsEdits(src) ==
    {t \in ScriptsStates \ {src} :
        \/ t.exists # src.exists
        \/ \E d \in {A, B} :
            /\ t.dirs \ {d} = src.dirs \ {d}
            /\ {f \in t.tree : f[1] # d} = {f \in src.tree : f[1] # d}
            /\ (d \in t.dirs /\ d \in src.dirs) =>
                Cardinality((t.tree \ src.tree) \cup (src.tree \ t.tree)) = 1}

EditScripts ==
    /\ pc = "done"
    /\ runs < MaxRuns
    /\ ~edited
    /\ edited' = TRUE
    /\ scripts' \in ScriptsEdits(scripts)
    /\ UNCHANGED <<config, repoExists, work, git, remote, pc, ops, todo,
                   copied_files, copy_ret, ret, runs, faults, done_apps, raised_apps, pre,
                   run0>>

Next ==
    \/ SetupPull
    \/ SetupClone
    \/ CopyBegin
    \/ \E item \in todo : CopyItem(item)
    \/ CopyEnd
    \/ GitStatus
    \/ GitAdd
    \/ GitCommit
    \/ GitPush
    \/ Interrupt
    \/ EditScripts

Spec == Init /\ [][Next]_vars

\* ---------------------------------------------------------------- claims
\* the git command `op` was issued in the current run
Issued(op) == \E i \in 1..Len(ops) : ops[i][1] = op

\* the commands of commit_and_push_changes
PublisherOps == {"status", "add", "commit", "push"}

\* no command failed, nothing raised and nobody killed the current run
RunClean == faults = run0.faults

\* the current run has returned (or died)
RunOver == pc = "done"

\* (in the formulas below, ~edited says that ~/scripts is still what the
\* current run found)

\* the top-level directories of ~/scripts whose names do not begin with "."
SourceApps == {d \in scripts.dirs : Head(d) # "."}

\* the working tree, the index and HEAD hold the same files
NoDifferences == work.files = git.index /\ git.index = git.head

\* the app folders of a namespace of the working tree
AppsOf(w, user) == {a[2] : a \in {x \in w.apps : x[1] = user}}

(* C1: a run that ends with a failed push keeps its commit, and the next   *)
(* run, with ~/scripts unchanged and nothing failing, issues a push that   *)
(* brings the unpublished commit to origin.                                *)
C1_FailedPushIsRetried ==
    /\ (RunOver /\ ret.at = "push_failed") =>
            (git.unpushed /\ git.head = work.files)
    /\ (RunOver /\ run0.prev = "push_failed" /\ ~run0.changed /\ RunClean) =>
            (Issued("push") /\ ~git.unpushed)

(* C2: when ~/scripts does not exist, the run's verdict is a failure and   *)
(* no command of the Change Publisher is issued.                           *)
C2_MissingScriptsFails ==
    (RunOver /\ copy_ret.at = "scripts_missing") =>
        /\ ret.value = FALSE
        /\ \A op \in PublisherOps : ~Issued(op)

C4_ZeroCountSkipsPublisher ==
    (copy_ret.at = "counted" /\ copied_files = 0) =>
        /\ \A op \in PublisherOps : ~Issued(op)
        /\ RunOver
        /\ ret.value = TRUE

C4_Witness ==
    /\ RunOver
    /\ copy_ret.at = "counted"
    /\ copied_files = 0
    /\ SourceApps # {}
    /\ ~NoDifferences

(* C5: when repo_path does not exist and the clone fails, the run ends     *)
(* with a failure verdict and neither the Mirror Copier nor any command of *)
(* the Change Publisher runs.                                              *)
C5_CloneFailureAborts ==
    (Issued("clone") /\ ~repoExists) =>
        /\ RunOver
        /\ ret = Return("setup_failed", FALSE)
        /\ Len(ops) = 1
        /\ copy_ret = NoRet
        /\ work = NoWork

C5_Witness ==
    /\ Issued("clone")
    /\ ~repoExists
    /\ RunOver
    /\ scripts.exists
    /\ SourceApps # {}

(* C6: when repo_path exists and the pull fails, setup_git_repo still      *)
(* returns True: the run goes on to the Mirror Copier and, if files were   *)
(* counted, to the Change Publisher, on the stale working tree.            *)
C6_PullFailureIsWarning ==
    Issued("pull") =>
        /\ ret.at # "setup_failed"
        /\ (RunOver /\ ret.at # "raised") =>
                /\ copy_ret.at # "none"
                /\ copy_ret.value => Issued("status")

C6_Witness ==
    /\ Issued("pull")
    /\ git.behind
    /\ LateFile \notin work.files
    /\ Issued("push")
    /\ RunOver

(* C7 as stated: after a sync run (even one in which nothing failed), the  *)
(* app folders under repo_path/user/ are exactly the top-level non-hidden  *)
(* directories of ~/scripts.                                               *)
C7_AppFoldersEqualSource ==
    (RunOver /\ copy_ret.at = "counted" /\ RunClean /\ ~edited) =>
        AppsOf(work, USER) = SourceApps

(* C7, amended: after a sync run whose Mirror Copier returned, the app     *)
(* folders under repo_path/user/ are every top-level non-hidden directory  *)
(* of ~/scripts whose copy succeeded and, of the folders that are not in   *)
(* ~/scripts, exactly those that were there before; when every copy        *)
(* succeeded the set is the source set united with the prior set.          *)
C7_AppFoldersCoverSource ==
    (copy_ret.at = "counted" /\ ~edited) =>
        /\ done_apps \subseteq AppsOf(work, USER)
        /\ AppsOf(work, USER) \ SourceApps = AppsOf(pre, USER) \ SourceApps
        /\ done_apps = SourceApps =>
                AppsOf(work, USER) = SourceApps \cup AppsOf(pre, USER)

C7_Witness ==
    /\ RunOver
    /\ copy_ret.at = "counted"
    /\ ~edited
    /\ done_apps = SourceApps
    /\ SourceApps # {}
    /\ AppsOf(pre, USER) \ SourceApps # {}
    /\ AppsOf(work, USER) # SourceApps

(* C8: for every app folder of ~/scripts, a file that the copy under       *)
(* repo_path/user/ held before mirroring and that the source app folder    *)
(* does not hold is gone once the Mirror Copier has returned.              *)
C8_StrayFilesAreGone ==
    (copy_ret.at = "counted" /\ ~edited) =>
        \A app \in SourceApps :
            \A p \in DstFilesOf(pre, USER, app) \ SrcFilesOf(scripts, app) :
                <<USER, app, p>> \notin work.files

C8_Witness ==
    /\ copy_ret.at = "counted"
    /\ ~edited
    /\ \E app \in SourceApps :
        /\ DstFilesOf(pre, USER, app) \ SrcFilesOf(scripts, app) # {}
        /\ SrcFilesOf(scripts, app) # {}
        /\ app \in done_apps

\* what a working tree holds outside the namespace of `user`
OutsideOf(w, user) ==
    [ns |-> w.ns \ {user},
     apps |-> {a \in w.apps : a[1] # user},
     files |-> {f \in w.files : f[1] # user}]

\* copy_scripts_to_repo has begun its work on the tree, or has ended it
MirrorActed == pc = "loop" \/ copy_ret.at = "counted" \/ ret.at = "raised"

(* C9: the Mirror Copier, run for one user, leaves everything outside      *)
(* repo_path/user/ as it found it, whatever the source app folders are.    *)
C9_OtherNamespacesUntouched ==
    MirrorActed => OutsideOf(work, USER) = OutsideOf(pre, USER)

C9_Witness ==
    /\ copy_ret.at = "counted"
    /\ A \in done_apps
    /\ SrcFilesOf(scripts, A) # {}
    /\ <<OTHERUSER, A, P1>> \in work.files
    /\ LateFile \in work.files
    /\ work.files # pre.files

\* `name` is some sequence of characters followed by one of `suffixes`
EndsWithSome(name, suffixes) ==
    \E s \in suffixes : \E k \in 0..Len(name) : SubSeq(name, 1, k) \o s = name

\* names and suffix sets the exclusion predicate is tried on
TriedNames == {X, XT, XTU, DotT, <<"t">>}
TriedSuffixSets == SUBSET {DotT, <<".", "T">>, <<"t">>, XT, <<>>}

\* the exclusion predicate against "ends with", on the names and sets tried
PredicateIsEndsWith ==
    \A name \in TriedNames : \A suffixes \in TriedSuffixSets :
        IsExcluded(<<name>>, suffixes) <=> EndsWithSome(name, suffixes)

(* C10: the exclusion predicate is true of a file name and a suffix set    *)
(* iff the name ends, case-sensitively, with one of the suffixes; and once *)
(* an app folder has been mirrored successfully, its copy holds a regular  *)
(* file iff the source app folder holds it and its name ends with none of  *)
(* the configured suffixes.                                                *)
C10_ExclusionCorrect ==
    /\ PredicateIsEndsWith
    /\ (MirrorActed /\ ~edited) =>
        \A app \in done_apps :
            DstFilesOf(work, USER, app) =
                {p \in SrcFilesOf(scripts, app) :
                    ~EndsWithSome(PathName(p), config.exclude_extensions)}

C10_Witness ==
    /\ copy_ret.at = "counted"
    /\ ~edited
    /\ done_apps = {A, B}
    /\ config.exclude_extensions = {DotT}
    /\ <<A, P2>> \in scripts.tree
    /\ <<USER, A, P2>> \notin work.files
    /\ <<USER, A, P1>> \in work.files
    /\ <<USER, B, P3>> \in work.files

\* the regular files the working tree holds in the app folders `apps` of `user`
FilesIn(w, user, apps) == {f \in w.files : f[1] = user /\ f[2] \in apps}

\* those of them whose names end with none of the configured suffixes
KeptFilesIn(w, user, apps) ==
    {f \in FilesIn(w, user, apps) :
        ~EndsWithSome(PathName(f[3]), config.exclude_extensions)}

\* the app folders of ~/scripts whose pass failed and whose copy still holds
\* a file that the filter should have removed
UnfilteredApps ==
    {app \in SourceApps \ done_apps :
        FilesIn(work, USER, {app}) # KeptFilesIn(work, USER, {app})}

(* C11 as stated: the count the Mirror Copier reports is the number of     *)
(* regular files the destination holds, after filtering, in the app        *)
(* folders that were processed to the end; no file of an app folder whose  *)
(* pass failed is counted.                                                 *)
C11_CountIsProcessedFiles ==
    (copy_ret.at = "counted" /\ ~edited) =>
        copied_files = Cardinality(FilesIn(work, USER, done_apps))

(* C11, amended: the count is the number of files of the processed app     *)
(* folders after filtering, plus, for an app folder whose filtering walk   *)
(* raised, the non-excluded files the walk had passed; a folder whose      *)
(* copytree raised adds nothing.  When nothing failed in the copier the    *)
(* count is exactly the number of files of the processed folders.          *)
C11_CountIsWalkedFiles ==
    (copy_ret.at = "counted" /\ ~edited) =>
        /\ copied_files >= Cardinality(FilesIn(work, USER, done_apps))
        /\ copied_files <= Cardinality(FilesIn(work, USER, done_apps))
                            + Cardinality(KeptFilesIn(work, USER, UnfilteredApps))
        /\ done_apps = SourceApps =>
                copied_files = Cardinality(KeptFilesIn(work, USER, SourceApps))

C11_Witness ==
    /\ copy_ret.at = "counted"
    /\ ~edited
    /\ done_apps = {B}
    /\ A \in SourceApps
    /\ <<USER, A, P2>> \in work.files
    /\ copied_files = 2

\* the last git command the current run issued
LastOp == IF ops = <<>> THEN "none" ELSE ops[Len(ops)][1]

\* git commit found nothing staged against HEAD and exited non-zero
NothingToCommit == RunOver /\ LastOp = "commit" /\ git.index = git.head

(* C12: when git status printed differences and git commit then found      *)
(* nothing to commit, the Change Publisher returns the success outcome     *)
(* NoChanges, and no push is issued.                                       *)
C12_EmptyStageIsNoChanges ==
    NothingToCommit =>
        /\ Issued("status") /\ Issued("add")
        /\ ret.value = TRUE
        /\ ~Issued("push")

\* the branches named by the commands `op` of the current run
BranchesOf(op) == {ops[i][2] : i \in {j \in 1..Len(ops) : ops[j][1] = op}}

(* C13: whatever the configured branch, the pull of a run names the        *)
(* configured branch, which is the branch the push of the same run names.  *)
C13_PullUsesConfiguredBranch ==
    /\ BranchesOf("pull") \subseteq {config.branch}
    /\ BranchesOf("push") \subseteq {config.branch}
    /\ Issued("push") => BranchesOf("pull") \subseteq BranchesOf("push")

\* the app folders the copier found under repo_path/user/ that ~/scripts
\* does not hold
StaleApps == AppsOf(pre, USER) \ SourceApps

(* C14: the Mirror Copier leaves an app folder of repo_path/user/ whose    *)
(* source app folder is not in ~/scripts where it is, with the files it    *)
(* held.                                                                   *)
C14_NoPruning ==
    (MirrorActed /\ ~edited) =>
        \A app \in StaleApps :
            /\ app \in AppsOf(work, USER)
            /\ DstFilesOf(work, USER, app) = DstFilesOf(pre, USER, app)

C14_Witness ==
    /\ copy_ret.at = "counted"
    /\ ~edited
    /\ \E app \in StaleApps : DstFilesOf(work, USER, app) # {}
    /\ done_apps # {}
    /\ work.files # pre.files
    /\ run0.prev = "published"
    /\ run0.changed

\* the commands of the Change Publisher the current run issued, in order
PublisherSeq(seq) ==
    LET issued == SelectSeq(seq, LAMBDA o : o[1] \in PublisherOps)
    IN  [i \in 1..Len(issued) |-> issued[i][1]]

PublisherOrder == <<"status", "add", "commit", "push">>

\* the verdicts of commit_and_push_changes and the command each follows
FailureAfter ==
    [status_failed |-> "status", add_failed |-> "add",
     commit_failed |-> "commit", push_failed |-> "push"]

(* C15: the Change Publisher issues status, add, commit, push in that      *)
(* order, each at most once in a run; add only after a status that         *)
(* succeeded and printed differences, commit only after an add that        *)
(* succeeded, push only after a commit that succeeded; when one of them    *)
(* fails the verdict is a failure and no later command is issued.          *)
C15_PublisherOrder ==
    /\ Len(PublisherSeq(ops)) <= 4
    /\ PublisherSeq(ops) = SubSeq(PublisherOrder, 1, Len(PublisherSeq(ops)))
    /\ \A v \in DOMAIN FailureAfter :
            (RunOver /\ ret.at = v) => (~ret.value /\ LastOp = FailureAfter[v])
    /\ (RunOver /\ ret.at = "no_changes") => LastOp = "status"
    /\ Issued("commit") => git.index = work.files
    /\ Issued("push") => git.head = git.index
    /\ (RunOver /\ ret.at = "published") => PublisherSeq(ops) = PublisherOrder

C15_Witness ==
    /\ RunOver
    /\ ret.at = "push_failed"
    /\ PublisherSeq(ops) = PublisherOrder
    /\ git.unpushed

(* C16: a failure in the pass of one app folder (in the removal of its old *)
(* copy, in the copy or in the filtering) does not end the Mirror Copier:  *)
(* a run that was not killed visits every app folder of ~/scripts and the  *)
(* copier returns its count.                                               *)
C16_FolderFailureNeverAborts ==
    (MirrorActed /\ RunOver) =>
        /\ copy_ret.at = "counted"
        /\ todo = {}

\* the files of a source app folder whose names end with no configured suffix
FilteredSource(app) ==
    {p \in SrcFilesOf(scripts, app) :
        ~EndsWithSome(PathName(p), config.exclude_extensions)}

(* C17: a run that follows a killed run, with ~/scripts unchanged, and     *)
(* that runs to its end with nothing failing, leaves every app folder of   *)
(* ~/scripts under repo_path/user/ equal to its filtered source, and       *)
(* leaves origin holding that content: no local commit is unpublished.     *)
C17_ConvergesAfterKill ==
    (/\ RunOver
     /\ run0.prev = "killed"
     /\ ~run0.changed
     /\ RunClean
     /\ ~edited
     /\ scripts.exists) =>
        /\ \A app \in SourceApps :
                DstFilesOf(work, USER, app) = FilteredSource(app)
        /\ ~git.unpushed
        /\ \A app \in SourceApps :
                DstFilesOf(Checkout(remote[config.branch]), USER, app)
                    = FilteredSource(app)

(* C18: when ~/scripts does not exist the Mirror Copier changes nothing in *)
(* the working tree: it does not make repo_path/user, and it removes and   *)
(* copies nothing.                                                         *)
C18_MissingScriptsChangesNothing ==
    copy_ret.at = "scripts_missing" =>
        /\ work = pre
        /\ todo = {} /\ done_apps = {} /\ copied_files = 0

C18_Witness ==
    /\ copy_ret.at = "scripts_missing"
    /\ RunOver
    /\ USER \notin work.ns
    /\ work # NoWork

(* C19: when a run ends with a success verdict (even a run in which        *)
(* nothing failed), the changes the Mirror Copier made to the working tree *)
(* in that run went to the Change Publisher: git status was run on them    *)
(* and HEAD holds them.                                                    *)
C19_MirrorChangesArePublished ==
    (RunOver /\ ret.value /\ copy_ret.at = "counted" /\ RunClean
             /\ work.files # pre.files) =>
        /\ Issued("status")
        /\ git.head = work.files

\* the app folders of ~/scripts whose pass of the loop ended in the except
FailedApps == SourceApps \ (todo \cup done_apps)

\* copy_scripts_to_repo is in its loop or has returned
CopierWorked == pc = "loop" \/ copy_ret.at = "counted"

(* C20 as stated: the old copy of an app folder is removed before the copy *)
(* is attempted, so for an app folder whose pass failed the working tree   *)
(* does not hold the previous content (it holds nothing, or a part of the  *)
(* unfiltered source), none of its files is counted, and the Change        *)
(* Publisher is invoked when the count is not 0.                           *)
C20_FailedFolderNothingCounted ==
    (CopierWorked /\ ~edited) =>
        /\ \A app \in FailedApps :
                DstFilesOf(work, USER, app) \subseteq SrcFilesOf(scripts, app)
        /\ FailedApps # {} =>
                copied_files <= Cardinality(FilesIn(work, USER, done_apps))
        /\ (RunOver /\ copied_files > 0) => Issued("status")

(* C20, amended: the same for an app folder whose copytree raised; an app  *)
(* folder whose filtering walk raised holds its whole copy, less the       *)
(* excluded files the walk removed, and the files the walk kept before it  *)
(* raised are counted.                                                     *)
C20_RaisedCopyNothingCounted ==
    (CopierWorked /\ ~edited) =>
        /\ \A app \in FailedApps :
                DstFilesOf(work, USER, app) \subseteq SrcFilesOf(scripts, app)
        /\ raised_apps \subseteq FailedApps
        /\ copied_files <=
                Cardinality(KeptFilesIn(work, USER, SourceApps \ raised_apps))
        /\ FailedApps = raised_apps =>
                copied_files = Cardinality(FilesIn(work, USER, done_apps))
        /\ \A app \in FailedApps \ raised_apps :
                FilteredSource(app) \subseteq DstFilesOf(work, USER, app)
        /\ (RunOver /\ copied_files > 0) => Issued("status")

C20_Witness ==
    /\ RunOver
    /\ copy_ret.at = "counted"
    /\ ~edited
    /\ A \in raised_apps
    /\ DstFilesOf(pre, USER, A) # {}
    /\ DstFilesOf(pre, USER, A) \cap DstFilesOf(work, USER, A) = {}
    /\ B \in done_apps
    /\ copied_files > 0
    /\ Issued("push")

====
